---- MODULE Spec2Model ----
(***************************************************************************)
(* newversion.version.Version: the PEP 440 bump and replace operations.    *)
(*                                                                         *)
(* A Version is modelled by its parsed base tuple (epoch, release, pre,    *)
(* post, dev, local).  Every operation of the class builds a raw base      *)
(* tuple, renders it to text and parses the text again (_replace / copy),  *)
(* so rendering and parsing are modelled as the two conversions they are:  *)
(* parsing rejects a minus sign in the epoch or the release, reads a minus *)
(* sign before a pre/post/dev number as a separator, and normalises the    *)
(* pre-release letter.  Releases have the three components major, minor,   *)
(* micro; a local version is one lower-case segment, which renders and     *)
(* parses to itself.                                                       *)
(***************************************************************************)
EXTENDS Integers, Sequences, FiniteSets, TLC

VARIABLES ver, call

vars == <<ver, call>>

\* Largest release component and pre/post/dev number of an explored version.
MaxNum == 1
\* Largest epoch of an initial version.
MaxEpoch == 1
\* Increments are drawn from -MaxInc..MaxInc.
MaxInc == 2

\* Python's None for an optional tuple; Some(x) is a passed optional argument.
None == <<>>
Some(x) == <<x>>

max(a, b) == IF a >= b THEN a ELSE b

BaseVersion(epoch, release, pre, post, dev, local) ==
    [epoch |-> epoch, release |-> release, pre |-> pre,
     post |-> post, dev |-> dev, local |-> local]

\* The exception raised by the constructor; an operation that raises has it
\* as its outcome, and it propagates through chained calls.
VersionError == [error |-> "VersionError"]

----------------------------------------------------------------------------
(* Rendering and parsing *)

\* str(int): an optional minus sign followed by the decimal digits.
str(n) == [sign |-> IF n < 0 THEN "-" ELSE "", digits |-> IF n < 0 THEN -n ELSE n]

\* dumps(): the text of a base tuple, kept as its segments:  [N!] release
\* [letter number] [.postN] [.devN] [+local]
dumps(b) ==
    [epoch |-> IF b.epoch # 0 THEN Some(str(b.epoch)) ELSE None,
     release |-> [i \in DOMAIN b.release |-> str(b.release[i])],
     pre |-> IF b.pre # None THEN <<b.pre[1], str(b.pre[2])>> ELSE None,
     post |-> IF b.post # None THEN Some(str(b.post[2])) ELSE None,
     dev |-> IF b.dev # None THEN Some(str(b.dev[2])) ELSE None,
     local |-> b.local]

\* The normalised pre-release letter of a spelling the grammar accepts.
Letter(l) ==
    CASE l \in {"a", "alpha"} -> "a"
      [] l \in {"b", "beta"} -> "b"
      [] l \in {"rc", "c", "pre", "preview"} -> "rc"

\* Version(text): the epoch and the release components are digits only, so a
\* minus sign there makes the text invalid; before a pre, post or dev number
\* the grammar allows a separator [-_.], so a minus sign there is dropped.
Version(text) ==
    IF \/ (text.epoch # None /\ text.epoch[1].sign = "-")
       \/ \E i \in DOMAIN text.release : text.release[i].sign = "-"
    THEN VersionError
    ELSE BaseVersion(
            IF text.epoch # None THEN text.epoch[1].digits ELSE 0,
            [i \in DOMAIN text.release |-> text.release[i].digits],
            IF text.pre # None THEN <<Letter(text.pre[1]), text.pre[2].digits>> ELSE None,
            IF text.post # None THEN <<"post", text.post[1].digits>> ELSE None,
            IF text.dev # None THEN <<"dev", text.dev[1].digits>> ELSE None,
            text.local)

copy(b) == Version(dumps(b))

\* Mutant of _replace: the new base is installed without the copy that
\* renders and parses it again.
_replace_unchecked(self, base) == base

_replace(self, base) == copy(base)

----------------------------------------------------------------------------
(* Accessors *)

major(self) == IF Len(self.release) >= 1 THEN self.release[1] ELSE 0
minor(self) == IF Len(self.release) >= 2 THEN self.release[2] ELSE 0
micro(self) == IF Len(self.release) >= 3 THEN self.release[3] ELSE 0

is_prerelease(self) == self.dev # None \/ self.pre # None
is_postrelease(self) == self.post # None
is_devrelease(self) == self.dev # None

\* Not a pre-release and not a dev-release; a post-release is stable.
is_stable(self) == ~is_prerelease(self)

\* The pre-release type as a VersionParts name, "None" when there is none.
prerelease_type(self) ==
    IF self.pre = None THEN "None"
    ELSE LET letter == self.pre[1]
         IN  CASE letter = "rc" -> "rc"
               [] letter = "a" -> "alpha"
               [] letter = "b" -> "beta"
               [] OTHER -> "None"

----------------------------------------------------------------------------
(* Ordering: the comparison key of the parsed tuple *)

\* Position of a local segment in the string order of the segments used.
LocalRank(l) == CASE l = <<"l1">> -> 1 [] l = <<"l2">> -> 2

\* The key as a tuple of integers compared lexicographically.  Infinity and
\* NegativeInfinity are the ranks above and below every letter or number:
\*   pre:   dev without pre and post ranks below everything of the release,
\*          no pre ranks above every pre, letters order a < b < rc;
\*   post:  no post ranks below every post;
\*   dev:   no dev ranks above every dev;
\*   local: no local ranks below every local.
_cmpkey(v) ==
    LET _pre == IF v.pre = None /\ v.post = None /\ v.dev # None THEN <<0, 0>>
                ELSE IF v.pre = None THEN <<4, 0>>
                ELSE <<CASE v.pre[1] = "a" -> 1 [] v.pre[1] = "b" -> 2 [] v.pre[1] = "rc" -> 3,
                       v.pre[2]>>
        _post == IF v.post = None THEN <<0, 0>> ELSE <<1, v.post[2]>>
        _dev == IF v.dev = None THEN <<1, 0>> ELSE <<0, v.dev[2]>>
        _local == IF v.local = None THEN <<0, 0>> ELSE <<1, LocalRank(v.local)>>
    IN  <<v.epoch, major(v), minor(v), micro(v)>> \o _pre \o _post \o _dev \o _local

\* a < b on keys of equal length.
KeyLess(a, b) ==
    \E i \in DOMAIN a : a[i] < b[i] /\ \A j \in 1..(i - 1) : a[j] = b[j]

\* self < other, self <= other
Less(self, other) == KeyLess(_cmpkey(self), _cmpkey(other))
LessEq(self, other) == ~Less(other, self)

----------------------------------------------------------------------------
(* Operations.  Each returns the new version, or VersionError when the     *)
(* constructor rejects the text of the tuple it built.                     *)

\* Mutant of _copy_base: "epoch if epoch else ..." instead of
\* "epoch if epoch is not None else ...", so a passed epoch of 0 is ignored.
_copy_base_truthy(self, epoch, release, dev_, pre, post, local) ==
    BaseVersion(
        IF epoch # None /\ epoch[1] # 0 THEN epoch[1] ELSE self.epoch,
        IF release # None THEN release ELSE self.release,
        IF pre # None THEN pre ELSE self.pre,
        IF post # None THEN post ELSE self.post,
        IF dev_ # None THEN dev_ ELSE self.dev,
        IF local # None THEN local ELSE self.local)

_copy_base(self, epoch, release, dev_, pre, post, local) ==
    BaseVersion(
        IF epoch # None THEN epoch[1] ELSE self.epoch,
        IF release # None THEN release ELSE self.release,
        IF pre # None THEN pre ELSE self.pre,
        IF post # None THEN post ELSE self.post,
        IF dev_ # None THEN dev_ ELSE self.dev,
        IF local # None THEN local ELSE self.local)

get_stable(self) ==
    _replace(self, BaseVersion(0, <<major(self), minor(self), micro(self)>>,
                               None, None, None, None))

\* Mutant of bump_major: without the branch for a pre- or dev-release of M.0.0.
bump_major_double(self, inc) ==
    IF self = VersionError THEN VersionError
    ELSE _replace(self, BaseVersion(0, <<major(self) + inc, 0, 0>>,
                                    None, None, None, None))

RECURSIVE bump_major(_, _)
bump_major(self, inc) ==
    IF self = VersionError THEN VersionError
    ELSE IF ~is_stable(self) /\ minor(self) = 0 /\ micro(self) = 0
    THEN bump_major(get_stable(self), inc - 1)
    ELSE _replace(self, BaseVersion(0, <<major(self) + inc, 0, 0>>,
                                    None, None, None, None))

RECURSIVE bump_minor(_, _)
bump_minor(self, inc) ==
    IF self = VersionError THEN VersionError
    ELSE IF ~is_stable(self) /\ micro(self) = 0
    THEN bump_minor(get_stable(self), inc - 1)
    ELSE _replace(self, BaseVersion(0, <<major(self), minor(self) + inc, 0>>,
                                    None, None, None, None))

RECURSIVE bump_micro(_, _)
bump_micro(self, inc) ==
    IF self = VersionError THEN VersionError
    ELSE IF ~is_stable(self)
    THEN bump_micro(get_stable(self), inc - 1)
    ELSE _replace(self, BaseVersion(0, <<major(self), minor(self), micro(self) + inc>>,
                                    None, None, None, None))

bump_release(self, release_type, inc) ==
    IF release_type = "major" THEN bump_major(self, inc)
    ELSE IF release_type = "minor" THEN bump_minor(self, inc)
    ELSE bump_micro(self, inc)

\* Mutant of bump_postrelease: the pre marker is not cleared.
bump_postrelease_keep_pre(self, inc) ==
    LET base_post == self.post
        post == IF base_post # None
                THEN <<"post", max(base_post[2], 1) + inc>>
                ELSE <<"post", max(inc, 1)>>
    IN  _replace(self, BaseVersion(0, self.release, self.pre, post, None, None))

\* Mutant of bump_postrelease: the current post number is not raised to 1.
bump_postrelease_nomax(self, inc) ==
    LET base_post == self.post
        post == IF base_post # None
                THEN <<"post", base_post[2] + inc>>
                ELSE <<"post", max(inc, 1)>>
    IN  _replace(self, BaseVersion(0, self.release, None, post, None, None))

bump_postrelease(self, inc) ==
    LET base_post == self.post
        post == IF base_post # None
                THEN <<"post", max(base_post[2], 1) + inc>>
                ELSE <<"post", max(inc, 1)>>
    IN  _replace(self, BaseVersion(0, self.release, None, post, None, None))

\* args: a record of optional arguments, None for one that is not passed.
replace(self, args) ==
    IF self = VersionError THEN VersionError
    ELSE
    LET release == <<IF args.major # None THEN args.major[1] ELSE major(self),
                     IF args.minor # None THEN args.minor[1] ELSE minor(self),
                     IF args.micro # None THEN args.micro[1] ELSE micro(self)>>
        \* kwargs["pre"] is assigned for alpha, then beta, then rc
        pre == IF args.rc # None THEN <<"rc", args.rc[1]>>
               ELSE IF args.beta # None THEN <<"beta", args.beta[1]>>
               ELSE IF args.alpha # None THEN <<"alpha", args.alpha[1]>>
               ELSE None
        dev_ == IF args.dev # None THEN <<"dev", args.dev[1]>> ELSE None
        post == IF args.post # None THEN <<"post", args.post[1]>> ELSE None
        local == IF args.local # None THEN <<args.local[1]>> ELSE None
    IN  _replace(self, _copy_base(self, args.epoch, release, dev_, pre, post, local))

NoArgs ==
    [major |-> None, minor |-> None, micro |-> None, alpha |-> None, beta |-> None,
     rc |-> None, dev |-> None, post |-> None, epoch |-> None, local |-> None]

\* Mutant of bump_dev: the stable case is tested before the post case, so a
\* post-release gets its release bumped.
bump_dev_stable_first(self, inc, bump_release_) ==
    IF is_devrelease(self)
    THEN LET dev_version == IF self.dev # None THEN self.dev[2] ELSE 0
         IN  replace(self, [NoArgs EXCEPT !.dev = Some(dev_version + inc)])
    ELSE IF is_stable(self) /\ bump_release_ # "post"
    THEN replace(bump_release(self, bump_release_, 1), [NoArgs EXCEPT !.dev = Some(inc - 1)])
    ELSE IF bump_release_ = "post" \/ is_postrelease(self)
    THEN replace(bump_postrelease(self, 1), [NoArgs EXCEPT !.dev = Some(inc - 1)])
    ELSE replace(self, [NoArgs EXCEPT !.dev = Some(inc - 1)])

bump_dev(self, inc, bump_release_) ==
    IF is_devrelease(self)
    THEN LET dev_version == IF self.dev # None THEN self.dev[2] ELSE 0    \* self.dev or 0
         IN  replace(self, [NoArgs EXCEPT !.dev = Some(dev_version + inc)])
    ELSE IF bump_release_ = "post" \/ is_postrelease(self)
    THEN replace(bump_postrelease(self, 1), [NoArgs EXCEPT !.dev = Some(inc - 1)])
    ELSE IF is_stable(self)
    THEN replace(bump_release(self, bump_release_, 1), [NoArgs EXCEPT !.dev = Some(inc - 1)])
    ELSE replace(self, [NoArgs EXCEPT !.dev = Some(inc - 1)])

\* release_type "None" is the argument left out.
bump_prerelease(self, inc, release_type, bump_release_) ==
    LET type1 == IF release_type # "None" THEN release_type
                 ELSE IF prerelease_type(self) # "None" THEN prerelease_type(self)
                 ELSE "rc"
        increment1 == IF self.pre = None THEN inc ELSE max(self.pre[2], 1) + inc
        candidate == _replace(self, _copy_base(self, None, None, None,
                                               <<type1, increment1>>, None, None))
        back == Less(candidate, self)
        type2 == IF back THEN (IF release_type # "None" THEN release_type ELSE "rc")
                 ELSE type1
        new_version == IF back THEN bump_release(get_stable(self), bump_release_, 1)
                       ELSE candidate
        increment2 == IF type2 # prerelease_type(self) THEN inc ELSE increment1
    IN  _replace(self, BaseVersion(0, new_version.release, <<type2, increment2>>,
                                   None, None, None))

----------------------------------------------------------------------------
(* The state machine: a caller holds a version, calls an operation on it,   *)
(* looks at the outcome and goes on with the version the call returned.    *)

Nums == {0, MaxNum}
Epochs == {0, MaxEpoch}
Incs == (-MaxInc)..MaxInc
Locals == {None, <<"l1">>}
PreTypes == {"None", "alpha", "beta", "rc"}
ReleaseTypes == {"major", "minor", "micro"}

\* The parsed versions over the boundary values; the bump operations reach
\* the values in between.
Versions ==
    {BaseVersion(e, r, pre, post, dev_, local) :
        e \in Epochs, r \in [1..3 -> Nums],
        pre \in {None} \cup ({"a", "b", "rc"} \X Nums),
        post \in {None} \cup ({"post"} \X Nums),
        dev_ \in {None} \cup ({"dev"} \X Nums),
        local \in Locals}

\* The versions of the documented examples: 1.2.3rc3, 1.2.3.dev14, 1.2.3a5.
V123(pre, dev_) == BaseVersion(0, <<1, 2, 3>>, pre, None, dev_, None)
DocVersions == {V123(<<"rc", 3>>, None), V123(None, <<"dev", 14>>), V123(<<"a", 5>>, None)}

\* The facet combination of a version.
Facets(v) == {f \in {"pre", "post", "dev"} :
                 \/ f = "pre" /\ v.pre # None
                 \/ f = "post" /\ v.post # None
                 \/ f = "dev" /\ v.dev # None}
FacetStates == {{}, {"pre"}, {"post"}, {"dev"}, {"pre", "dev"}, {"post", "dev"}}

\* Calls are explored on the versions within the bounds and on the
\* documented examples; a result beyond the bounds is recorded and checked,
\* and not called on again.
InBounds(v) ==
    /\ v.epoch <= MaxEpoch
    /\ \A i \in DOMAIN v.release : v.release[i] <= MaxNum
    /\ v.pre # None => v.pre[2] <= MaxNum
    /\ v.post # None => v.post[2] <= MaxNum
    /\ v.dev # None => v.dev[2] <= MaxNum
Explored(v) == InBounds(v) \/ v \in DocVersions

NoCall ==
    [op |-> "none", self |-> None, inc |-> 0, release_type |-> "None",
     bump_release |-> "None", args |-> NoArgs, raised |-> FALSE]

\* The caller is between calls and holds a version calls are explored on.
Ready == call.op = "none" /\ Explored(ver)

\* The record of the call  ver.op(...)  that returned res or raised.
Called(op, inc, release_type, bump_release_, args, res) ==
    [op |-> op, self |-> ver, inc |-> inc, release_type |-> release_type,
     bump_release |-> bump_release_, args |-> args, raised |-> (res = VersionError)]

\* The version the caller holds after the call: the returned one, or the
\* old one when the call raised.
Held(res) == IF res = VersionError THEN ver ELSE res

Init ==
    /\ ver \in Versions \cup DocVersions
    /\ call = NoCall

BumpMajor ==
    \E inc \in Incs :
    LET res == bump_major(ver, inc)
    IN  /\ Ready
        /\ call' = Called("bump_major", inc, "None", "None", NoArgs, res)
        /\ ver' = Held(res)

BumpMinor ==
    \E inc \in Incs :
    LET res == bump_minor(ver, inc)
    IN  /\ Ready
        /\ call' = Called("bump_minor", inc, "None", "None", NoArgs, res)
        /\ ver' = Held(res)

BumpMicro ==
    \E inc \in Incs :
    LET res == bump_micro(ver, inc)
    IN  /\ Ready
        /\ call' = Called("bump_micro", inc, "None", "None", NoArgs, res)
        /\ ver' = Held(res)

BumpRelease ==
    \E inc \in Incs, t \in ReleaseTypes :
    LET res == bump_release(ver, t, inc)
    IN  /\ Ready
        /\ call' = Called("bump_release", inc, t, "None", NoArgs, res)
        /\ ver' = Held(res)

BumpDev ==
    \E inc \in Incs, b \in ReleaseTypes \cup {"post"} :
    LET res == bump_dev(ver, inc, b)
    IN  /\ Ready
        /\ call' = Called("bump_dev", inc, "None", b, NoArgs, res)
        /\ ver' = Held(res)

BumpPrerelease ==
    \E inc \in Incs, t \in PreTypes, b \in ReleaseTypes :
    LET res == bump_prerelease(ver, inc, t, b)
    IN  /\ Ready
        /\ call' = Called("bump_prerelease", inc, t, b, NoArgs, res)
        /\ ver' = Held(res)

BumpPostrelease ==
    \E inc \in Incs :
    LET res == bump_postrelease(ver, inc)
    IN  /\ Ready
        /\ call' = Called("bump_postrelease", inc, "None", "None", NoArgs, res)
        /\ ver' = Held(res)

GetStable ==
    LET res == get_stable(ver)
    IN  /\ Ready
        /\ call' = Called("get_stable", 0, "None", "None", NoArgs, res)
        /\ ver' = Held(res)

\* The caller is ready for its next call.
Continue ==
    /\ call.op # "none"
    /\ call' = NoCall
    /\ ver' = ver

Next ==
    \/ BumpMajor \/ BumpMinor \/ BumpMicro \/ BumpRelease
    \/ BumpDev \/ BumpPrerelease \/ BumpPostrelease \/ GetStable
    \/ Continue

Spec == Init /\ [][Next]_vars

\* The bump operations alone, from the six facet combinations of the
\* state-machine view (no pre marker together with a post marker).
InitFacet ==
    /\ ver \in {v \in Versions : Facets(v) \in FacetStates}
    /\ call = NoCall

SpecFacet == InitFacet /\ [][Next]_vars

\* replace, applied once to a version with any facet combination.  Each
\* argument is left out or passed; the passed values are valid facet values
\* (0 included), and two of the release values lie beyond MaxNum.
ReplaceVersions ==
    {BaseVersion(e, r, pre, post, dev_, local) :
        e \in Epochs, r \in {<<0, MaxNum, 0>>, <<MaxNum, 0, MaxNum>>},
        pre \in {None, <<"a", MaxNum>>, <<"b", 0>>, <<"rc", MaxNum>>},
        post \in {None, <<"post", MaxNum>>},
        dev_ \in {None, <<"dev", 0>>},
        local \in Locals}

ReplaceArgs ==
    [major : {None, Some(MaxNum + 1)}, minor : {None, Some(0)}, micro : {None, Some(MaxNum)},
     alpha : {None, Some(0)}, beta : {None, Some(MaxNum)}, rc : {None, Some(MaxNum + 1)},
     dev : {None, Some(MaxNum)}, post : {None, Some(0)},
     epoch : {None, Some(0), Some(MaxEpoch + 1)}, local : {None, Some("l2")}]

InitReplace ==
    /\ ver \in ReplaceVersions
    /\ call = NoCall

Replace ==
    \E args \in ReplaceArgs :
    LET res == replace(ver, args)
    IN  /\ Ready
        /\ call' = Called("replace", 0, "None", "None", args, res)
        /\ ver' = Held(res)

NextReplace == Replace

SpecReplace == InitReplace /\ [][NextReplace]_vars

----------------------------------------------------------------------------
(* Properties *)

Abs(n) == IF n < 0 THEN -n ELSE n

\* The stable version with the given release triple.
Stable(release) == BaseVersion(0, release, None, None, None, None)

\* C1: every bump operation (major, minor, micro, dev, prerelease,
\* postrelease) called with inc >= 1 on any valid version returns a version
\* strictly greater than the one it was called on.
C1_MonotonicBump ==
    ( /\ call.op \in {"bump_major", "bump_minor", "bump_micro", "bump_dev",
                      "bump_prerelease", "bump_postrelease"}
      /\ call.inc >= 1 )
    => (~call.raised /\ Less(call.self, ver))

\* C2: bump_prerelease with inc >= 0, any release_type and any bump_release
\* returns a version greater than or equal to the one it was called on.
C2_PrereleaseMonotonic ==
    (call.op = "bump_prerelease" /\ call.inc >= 0)
    => (~call.raised /\ LessEq(call.self, ver))

\* C3: 1.2.3rc3.bump_prerelease(2, "beta"), bump_release at its default,
\* returns 1.2.3rc5: same release, type rc, counter 3 + 2.
C3_DocExample ==
    ( /\ call.op = "bump_prerelease"
      /\ call.self = V123(<<"rc", 3>>, None)
      /\ call.inc = 2
      /\ call.release_type = "beta"
      /\ call.bump_release = "micro" )
    => (~call.raised /\ ver = V123(<<"rc", 5>>, None))

\* The release triple the release bump named by kind aims at: the component
\* plus inc, and one less when self is a pre- or dev-release whose lower
\* components are all zero.
ReleaseTarget(kind, self, inc) ==
    LET early == self.pre # None \/ self.dev # None
        M == self.release[1]
        m == self.release[2]
        p == self.release[3]
    IN  CASE kind = "major" ->
               <<IF early /\ m = 0 /\ p = 0 THEN M + inc - 1 ELSE M + inc, 0, 0>>
          [] kind = "minor" ->
               <<M, IF early /\ p = 0 THEN m + inc - 1 ELSE m + inc, 0>>
          [] kind = "micro" ->
               <<M, m, IF early THEN p + inc - 1 ELSE p + inc>>

\* The kind of release bump of the recorded call.
ReleaseKind ==
    CASE call.op = "bump_major" -> "major"
      [] call.op = "bump_minor" -> "minor"
      [] call.op = "bump_micro" -> "micro"
      [] call.op = "bump_release" -> call.release_type

ReleaseBumps == {"bump_major", "bump_minor", "bump_micro", "bump_release"}

C5_DocExamples ==
    ( /\ call.op = "bump_micro"
      /\ (call.self.pre # None \/ call.self.dev # None)
      /\ call.inc >= 0 )
    => ( /\ ~call.raised
         /\ ver = Stable(<<call.self.release[1], call.self.release[2],
                           call.self.release[3] + call.inc>>) )

\* What bump_dev returns according to its four cases; the dev number
\* attached is n itself, or its absolute value.
DevNumber(n, absolute) == IF absolute THEN Abs(n) ELSE n

BumpDevCases(self, inc, bump_release_, absolute) ==
    IF self.dev # None
    THEN [self EXCEPT !.dev = <<"dev", DevNumber(self.dev[2] + inc, absolute)>>]
    ELSE IF bump_release_ = "post" \/ self.post # None
    THEN [bump_postrelease(self, 1) EXCEPT !.dev = <<"dev", DevNumber(inc - 1, absolute)>>]
    ELSE IF self.pre = None
    THEN [bump_release(self, bump_release_, 1) EXCEPT !.dev = <<"dev", DevNumber(inc - 1, absolute)>>]
    ELSE [self EXCEPT !.dev = <<"dev", DevNumber(inc - 1, absolute)>>]

C7_FacetClosure == Facets(ver) \in FacetStates

\* bump_dev has taken a post-release to post+dev.
C7_Witness ==
    /\ call.op = "bump_dev"
    /\ Facets(call.self) = {"post"}
    /\ Facets(ver) = {"post", "dev"}

\* C8: no version reached by bump calls has a negative release component.
C8_ReleaseNonNegative == \A i \in DOMAIN ver.release : ver.release[i] >= 0

\* bump_major(0) on a pre-release of M.0.0 has stepped back to (M-1).0.0.
C8_Witness ==
    /\ call.op = "bump_major"
    /\ call.inc = 0
    /\ ~call.raised
    /\ ver.release[1] = call.self.release[1] - 1

\* The post number bump_postrelease computes.
PostNumber(self, inc) ==
    IF self.post # None THEN max(self.post[2], 1) + inc ELSE max(inc, 1)

\* C9 as stated: for every integer inc, bump_postrelease(inc) returns self's
\* release with no pre, dev or local and the post number
\* max(post, 1) + inc, or max(inc, 1) when self has no post marker.
C9_AsStated ==
    call.op = "bump_postrelease"
    => ( /\ ~call.raised
         /\ ver.release = call.self.release
         /\ ver.pre = None /\ ver.dev = None /\ ver.local = None
         /\ ver.post = <<"post", PostNumber(call.self, call.inc)>> )

\* C9 amended: the post number is the absolute value of that number (the
\* number itself whenever it is not negative).
C9_BumpPostrelease ==
    call.op = "bump_postrelease"
    => ( /\ ~call.raised
         /\ ver.release = call.self.release
         /\ ver.pre = None /\ ver.dev = None /\ ver.local = None
         /\ ver.post = <<"post", Abs(PostNumber(call.self, call.inc))>> )

\* post0 counts as post1: bump_postrelease(1) on X.post0 has returned X.post2.
C9_Witness ==
    /\ call.op = "bump_postrelease"
    /\ call.inc = 1
    /\ call.self.post = <<"post", 0>>
    /\ ver.post = <<"post", 2>>

\* The value replace gives an optional facet: the passed one, else self's.
Passed(arg, old) == IF arg # None THEN arg[1] ELSE old

====
